---- MODULE Spec2Model ----
(***************************************************************************)
(* Model of src/tester.py (APILoadTester): the batch dispatcher of         *)
(* run_load_test, the per-request executor make_request, the per-batch     *)
(* semaphore, the lock-guarded result collection of print_result and the   *)
(* statistics of print_summary.                                            *)
(*                                                                         *)
(* Strings that the code builds or splits (the error field) are sequences  *)
(* of tokens; "" is the empty sequence and ":" is a token of its own.      *)
(* Floats that the code derives by division are kept exact: the percentile *)
(* index int((p / 100) * n) is (p * n) \div 100, which agrees with the     *)
(* float computation for every p of the ladder and every n <= 200000.      *)
(***************************************************************************)
EXTENDS Integers, Sequences, FiniteSets, TLC

VARIABLES
    requests_per_second, \* self.requests_per_second
    total_requests,      \* self.total_requests
    results,             \* self.results
    lock,                \* self.lock: 0 when free, else the id of the holder
    session,             \* self.session: "none", "open", "closed"
    pc,                  \* position of the main task (run / run_load_test)
    exc,                 \* exception travelling through the main task
    batch_size,          \* local batch_size of run_load_test
    batch_start,         \* loop variable batch_start
    batch_end,           \* local batch_end
    semaphore,           \* free slots of the current batch's semaphore
    tpc,                 \* position of the task limited_request(id)
    result,              \* value returned by make_request in task id
    start_time,          \* local start_time of make_request in task id
    attempts,            \* number of make_request calls made for id
    pbar,                \* progress counter pbar.n
    clock,               \* time.time()
    report,              \* what print_summary last produced
    probe,               \* percentile lookups made outside the summary
    batches,             \* the batch_requests lists built so far, in order
    pauses,              \* number of pacing sleeps begun
    summaries            \* number of calls of print_summary

vars == <<requests_per_second, total_requests, results, lock, session, pc,
          exc, batch_size, batch_start, batch_end, semaphore, tpc, result,
          start_time, attempts, pbar, clock, report, probe, batches, pauses,
          summaries>>

----------------------------------------------------------------------------
(* Bounds of the model                                                     *)

MaxTotal == 3

MaxClock == 1

MaxSummaryLen == 4

(* Program constants                                                       *)

HighRpsThreshold == 100

MaxBatch == 1000

MaxConcurrent == 1000

MsPerSecond == 1000

MaxBurst == 2

RpsSet == {1, 2, HighRpsThreshold, 2 * MaxBatch}

(* The configurations of the model: any total up to MaxTotal at the low    *)
(* rates, up to MaxBurst where one batch holds every request, and a single *)
(* request at the rate above the batch ceiling.                            *)
Configs ==
    {c \in RpsSet \X (1..MaxTotal) :
        /\ c[1] >= HighRpsThreshold => c[2] <= MaxBurst
        /\ c[1] > MaxBatch => c[2] = 1}

Ids == 1..MaxTotal

StatusSet == {200, 503}

NoResult == <<>>

NoReport == [kind |-> "none"]

NoProbe == [kind |-> "none"]

Min(a, b) == IF a < b THEN a ELSE b

Max(a, b) == IF a > b THEN a ELSE b

----------------------------------------------------------------------------
(* make_request                                                            *)

(* The classes an attempt can end with, and the classes each is an         *)
(* instance of (aiohttp / asyncio hierarchy used by the except clauses).   *)
Bases(e) ==
    CASE e = "TimeoutError"         -> {"TimeoutError", "Exception"}
      [] e = "ClientConnectorError" -> {"ClientConnectorError", "ClientConnectionError",
                                        "ClientError", "Exception"}
      [] e = "ClientPayloadError"   -> {"ClientPayloadError", "ClientError", "Exception"}
      [] e = "ValueError"           -> {"ValueError", "Exception"}
      [] e = "CancelledError"       -> {"CancelledError", "BaseException"}

(* str(e) of the exception, as tokens.                                     *)
StrOf(e) ==
    CASE e = "ClientPayloadError" -> <<"payload">>
      [] e = "ValueError"         -> <<"bad", ":", "value">>
      [] OTHER                    -> <<>>

NetExceptions == {"TimeoutError", "ClientConnectorError", "ClientPayloadError", "ValueError"}

(* How the awaited session.request can end without the task being          *)
(* cancelled: a response with a status, or an exception.                   *)
Endings == [kind : {"response"}, status : StatusSet]
             \cup [kind : {"exception"}, class : NetExceptions]

Cancellation == [kind |-> "exception", class |-> "CancelledError"]

Returned(v) == [kind |-> "return", value |-> v]

Raised(e) == [kind |-> "raise", class |-> e]

(* make_request with the Timeout clause re-raising instead of returning.   *)
make_request_TimeoutRaises(request_id, ending, start, now) ==
    LET response_time == (now - start) * MsPerSecond IN
    IF ending.kind = "response"
    THEN Returned(<<request_id, ending.status, response_time, <<>> >>)
    ELSE IF "TimeoutError" \in Bases(ending.class)
    THEN Raised(ending.class)
    ELSE IF "ClientConnectionError" \in Bases(ending.class)
    THEN Returned(<<request_id, 0, response_time, <<"Connection Error">> >>)
    ELSE IF "ClientError" \in Bases(ending.class)
    THEN Returned(<<request_id, 0, response_time,
                    <<"Client Error", ":", " ">> \o StrOf(ending.class) >>)
    ELSE IF "Exception" \in Bases(ending.class)
    THEN Returned(<<request_id, 0, response_time,
                    <<"Unexpected Error", ":", " ">> \o StrOf(ending.class) >>)
    ELSE Raised(ending.class)

(* make_request with the Timeout clause returning an empty error string.   *)
make_request_EmptyTimeout(request_id, ending, start, now) ==
    LET response_time == (now - start) * MsPerSecond IN
    IF ending.kind = "response"
    THEN Returned(<<request_id, ending.status, response_time, <<>> >>)
    ELSE IF "TimeoutError" \in Bases(ending.class)
    THEN Returned(<<request_id, 0, response_time, <<>> >>)
    ELSE IF "ClientConnectionError" \in Bases(ending.class)
    THEN Returned(<<request_id, 0, response_time, <<"Connection Error">> >>)
    ELSE IF "ClientError" \in Bases(ending.class)
    THEN Returned(<<request_id, 0, response_time,
                    <<"Client Error", ":", " ">> \o StrOf(ending.class) >>)
    ELSE IF "Exception" \in Bases(ending.class)
    THEN Returned(<<request_id, 0, response_time,
                    <<"Unexpected Error", ":", " ">> \o StrOf(ending.class) >>)
    ELSE Raised(ending.class)

(* make_request without the final except Exception clause.                 *)
make_request_NoCatchAll(request_id, ending, start, now) ==
    LET response_time == (now - start) * MsPerSecond IN
    IF ending.kind = "response"
    THEN Returned(<<request_id, ending.status, response_time, <<>> >>)
    ELSE IF "TimeoutError" \in Bases(ending.class)
    THEN Returned(<<request_id, 0, response_time, <<"Timeout">> >>)
    ELSE IF "ClientConnectionError" \in Bases(ending.class)
    THEN Returned(<<request_id, 0, response_time, <<"Connection Error">> >>)
    ELSE IF "ClientError" \in Bases(ending.class)
    THEN Returned(<<request_id, 0, response_time,
                    <<"Client Error", ":", " ">> \o StrOf(ending.class) >>)
    ELSE Raised(ending.class)

make_request(request_id, ending, start, now) ==
    LET response_time == (now - start) * MsPerSecond IN
    IF ending.kind = "response"
    THEN Returned(<<request_id, ending.status, response_time, <<>> >>)
    ELSE IF "TimeoutError" \in Bases(ending.class)
    THEN Returned(<<request_id, 0, response_time, <<"Timeout">> >>)
    ELSE IF "ClientConnectionError" \in Bases(ending.class)
    THEN Returned(<<request_id, 0, response_time, <<"Connection Error">> >>)
    ELSE IF "ClientError" \in Bases(ending.class)
    THEN Returned(<<request_id, 0, response_time,
                    <<"Client Error", ":", " ">> \o StrOf(ending.class) >>)
    ELSE IF "Exception" \in Bases(ending.class)
    THEN Returned(<<request_id, 0, response_time,
                    <<"Unexpected Error", ":", " ">> \o StrOf(ending.class) >>)
    ELSE Raised(ending.class)

----------------------------------------------------------------------------
(* print_result: the record appended to self.results                       *)

ResultRecord(r, now) ==
    [id |-> r[1], status_code |-> r[2], response_time |-> r[3],
     error |-> r[4], timestamp |-> now]

----------------------------------------------------------------------------
(* print_summary                                                           *)

Percentiles == {50, 75, 90, 95, 99}

Ratio(n, d) == [num |-> n, den |-> d]

RECURSIVE SumSeq(_)
SumSeq(s) == IF s = <<>> THEN 0 ELSE Head(s) + SumSeq(Tail(s))

RECURSIVE SumSquares(_)
SumSquares(s) == IF s = <<>> THEN 0 ELSE Head(s) * Head(s) + SumSquares(Tail(s))

RECURSIVE MinSeq(_)
MinSeq(s) == IF Len(s) = 1 THEN Head(s) ELSE Min(Head(s), MinSeq(Tail(s)))

RECURSIVE MaxSeq(_)
MaxSeq(s) == IF Len(s) = 1 THEN Head(s) ELSE Max(Head(s), MaxSeq(Tail(s)))

RECURSIVE MapField(_, _)
MapField(s, f) == IF s = <<>> THEN <<>> ELSE <<Head(s)[f]>> \o MapField(Tail(s), f)

(* sorted(): insertion into an already sorted prefix, stable.              *)
RECURSIVE InsertSorted(_, _)
InsertSorted(x, s) ==
    IF s = <<>> THEN <<x>>
    ELSE IF x < Head(s) THEN <<x>> \o s
    ELSE <<Head(s)>> \o InsertSorted(x, Tail(s))

(* sorted() left out: the list is used in recording order.                 *)
sorted_Identity(s) == s

RECURSIVE sorted(_)
sorted(s) == IF s = <<>> THEN <<>> ELSE InsertSorted(s[Len(s)], sorted(SubSeq(s, 1, Len(s) - 1)))

Succeeded(r) == r.status_code > 0

(* statistics.median of a non-empty list                                   *)
statistics_median(xs) ==
    LET s == sorted(xs)
        n == Len(s) IN
    IF n % 2 = 1 THEN Ratio(s[(n \div 2) + 1], 1)
    ELSE Ratio(s[n \div 2] + s[(n \div 2) + 1], 2)

(* statistics.stdev: the square root of the sample variance; raises        *)
(* StatisticsError on fewer than two data points.  The value is kept as    *)
(* the exact variance n*sum(x^2) - sum(x)^2 over n*(n-1).                  *)
statistics_stdev(xs) ==
    LET n == Len(xs) IN
    IF n < 2 THEN Raised("StatisticsError")
    ELSE [sqrt_of |-> Ratio(n * SumSquares(xs) - SumSeq(xs) * SumSeq(xs), n * (n - 1))]

(* Line 223 without the guard on the number of values.                     *)
StdDev_Unguarded(response_times) == statistics_stdev(response_times)

(* Line 223: the standard deviation shown in the summary.                  *)
StdDev(response_times) ==
    IF Len(response_times) > 1 THEN statistics_stdev(response_times)
    ELSE [sqrt_of |-> Ratio(0, 1)]

(* Lines 230-232: the index used for percentile p over n sorted values.    *)
PercentileIndex(p, n) ==
    LET idx == ((p * n) \div 100) - 1 IN
    IF idx < 0 THEN 0 ELSE idx

(* Line 233: sorted_times[idx] (0-based), IndexError when out of range.    *)
PercentileValue(p, sorted_times) ==
    LET idx == PercentileIndex(p, Len(sorted_times)) IN
    IF idx < Len(sorted_times) THEN [ms |-> sorted_times[idx + 1]] ELSE Raised("IndexError")

(* error.split(':')[0]: the tokens before the first ":"                    *)
RECURSIVE ErrorType(_)
ErrorType(error) ==
    IF error = <<>> THEN <<>>
    ELSE IF Head(error) = ":" THEN <<>>
    ELSE <<Head(error)>> \o ErrorType(Tail(error))

Skipped == [kind |-> "skipped"]

LatencyStatistics(response_times) ==
    IF response_times = <<>> THEN Skipped
    ELSE [kind   |-> "latency",
          count  |-> Len(response_times),
          mean   |-> Ratio(SumSeq(response_times), Len(response_times)),
          median |-> statistics_median(response_times),
          min    |-> MinSeq(response_times),
          max    |-> MaxSeq(response_times),
          stdev  |-> StdDev(response_times)]

PercentileLadder(response_times) ==
    IF response_times = <<>> THEN Skipped
    ELSE LET sorted_times == sorted(response_times) IN
         [kind  |-> "percentiles",
          idx   |-> [p \in Percentiles |-> PercentileIndex(p, Len(sorted_times))],
          value |-> [p \in Percentiles |-> PercentileValue(p, sorted_times)]]

(* Line 200 *)
ActualRps(total, test_duration) ==
    IF test_duration > 0 THEN Ratio(total, test_duration) ELSE Ratio(0, 1)

(* The efficiency left as a fraction of the target, not a percentage.      *)
ThroughputAnalysis_Fraction(n, test_duration, actual_rps, target) ==
    IF test_duration > 0
    THEN [kind       |-> "throughput",
          per_second |-> actual_rps,
          per_minute |-> Ratio(actual_rps.num * 60, actual_rps.den),
          data_points |-> Ratio(n, test_duration),
          efficiency |-> IF target > 0
                         THEN Ratio(actual_rps.num, actual_rps.den * target)
                         ELSE Ratio(0, 1)]
    ELSE Skipped

(* Lines 235-244 *)
ThroughputAnalysis(n, test_duration, actual_rps, target) ==
    IF test_duration > 0
    THEN [kind       |-> "throughput",
          per_second |-> actual_rps,
          per_minute |-> Ratio(actual_rps.num * 60, actual_rps.den),
          data_points |-> Ratio(n, test_duration),
          efficiency |-> IF target > 0
                         THEN Ratio(actual_rps.num * 100, actual_rps.den * target)
                         ELSE Ratio(0, 1)]
    ELSE Skipped

StatusCodes(rs) ==
    LET codes == {rs[i].status_code : i \in {j \in DOMAIN rs : rs[j].status_code > 0}} IN
    [c \in codes |-> Cardinality({i \in DOMAIN rs : rs[i].status_code = c})]

Errors(rs) ==
    LET types == {ErrorType(rs[i].error) : i \in {j \in DOMAIN rs : rs[j].error # <<>>}} IN
    [t \in types |-> Cardinality({i \in DOMAIN rs : rs[i].error # <<>>
                                                  /\ ErrorType(rs[i].error) = t})]

IsRaised(v) == "class" \in DOMAIN v

print_summary(rs, target) ==
    IF rs = <<>> THEN [kind |-> "no_data"]
    ELSE
    LET total              == Len(rs)
        successful         == Len(SelectSeq(rs, Succeeded))
        response_times     == MapField(SelectSeq(rs, Succeeded), "response_time")
        all_response_times == MapField(rs, "response_time")
        timestamps         == MapField(rs, "timestamp")
        test_duration      == MaxSeq(timestamps) - MinSeq(timestamps)
        actual_rps         == ActualRps(total, test_duration)
        latency            == LatencyStatistics(response_times)
        ladder             == PercentileLadder(response_times)
        IsFast(t)          == t < 100
        IsMedium(t)        == 100 <= t /\ t < 500
        IsSlow(t)          == t >= 500
    IN  IF latency # Skipped /\ IsRaised(latency.stdev)
        THEN latency.stdev
        ELSE IF ladder # Skipped /\ \E p \in Percentiles : IsRaised(ladder.value[p])
        THEN Raised("IndexError")
        ELSE [kind          |-> "summary",
              total         |-> total,
              successful    |-> successful,
              failed        |-> total - successful,
              success_rate  |-> Ratio(successful * 100, total),
              test_duration |-> test_duration,
              target_rps    |-> target,
              actual_rps    |-> actual_rps,
              latency       |-> latency,
              percentiles   |-> ladder,
              throughput    |-> ThroughputAnalysis(total, test_duration, actual_rps, target),
              status_codes  |-> StatusCodes(rs),
              errors        |-> Errors(rs),
              fast          |-> Len(SelectSeq(all_response_times, IsFast)),
              medium        |-> Len(SelectSeq(all_response_times, IsMedium)),
              slow          |-> Len(SelectSeq(all_response_times, IsSlow))]

----------------------------------------------------------------------------
(* The run: __init__, get_user_input, run_load_test, run                   *)

BatchIds == (batch_start + 1)..batch_end

Terminal == {"done", "failed", "cancelled"}

(* Dispatcher state of a run, read off the position of the main task.      *)
State ==
    CASE pc \in {"input", "start"}          -> "Idle"
      [] pc \in {"loop", "gather", "sleep"} -> "Running"
      [] exc = "none"                       -> "Completed"
      [] exc \in {"KeyboardInterrupt", "CancelledError"} -> "Cancelled"
      [] OTHER                              -> "Failed"

Init ==
    /\ requests_per_second = 0
    /\ total_requests = 0
    /\ results = <<>>
    /\ lock = 0
    /\ session = "none"
    /\ pc = "input"
    /\ exc = "none"
    /\ batch_size = 0
    /\ batch_start = 0
    /\ batch_end = 0
    /\ semaphore = 0
    /\ tpc = [i \in Ids |-> "none"]
    /\ result = [i \in Ids |-> NoResult]
    /\ start_time = [i \in Ids |-> 0]
    /\ attempts = [i \in Ids |-> 0]
    /\ pbar = 0
    /\ clock = 0
    /\ report = NoReport
    /\ probe = NoProbe
    /\ batches = <<>>
    /\ pauses = 0
    /\ summaries = 0

(* Lines 87-109: the operator supplies a positive rate and total.          *)
get_user_input ==
    /\ pc = "input"
    /\ \E c \in Configs :
          /\ requests_per_second' = c[1]
          /\ total_requests' = c[2]
    /\ pc' = "start"
    /\ UNCHANGED <<results, lock, session, exc, batch_size, batch_start, batch_end,
                   semaphore, tpc, result, start_time, attempts, pbar, clock,
                   report, probe>>
    /\ UNCHANGED <<batches, pauses, summaries>>

(* Lines 295-303 *)
BatchSize(rps) ==
    IF rps >= HighRpsThreshold THEN Min(rps, MaxBatch) ELSE rps

(* Lines 295-317: batch size, session, entry of the try block.             *)
run_load_test ==
    /\ pc = "start"
    /\ batch_size' = BatchSize(requests_per_second)
    /\ session' = "open"
    /\ batch_start' = 0
    /\ pc' = "loop"
    /\ UNCHANGED <<requests_per_second, total_requests, results, lock, exc,
                   batch_end, semaphore, tpc, result, start_time, attempts, pbar,
                   clock, report, probe>>
    /\ UNCHANGED <<batches, pauses, summaries>>

(* The loop advancing one id too far.                                      *)
NextBatchStart_Skip(start, size) == start + size + 1

(* Line 324: the step of range(0, total_requests, batch_size)              *)
NextBatchStart(start, size) == start + size

(* A batch that takes one id more than batch_size.                         *)
BatchEnd_OffByOne(start, size, total) == Min(start + size + 1, total)

(* Line 325 *)
BatchEnd(start, size, total) == Min(start + size, total)

(* A batch that starts at batch_start instead of batch_start + 1.          *)
BatchRequests_FromStart(start, end) == start..end

(* Line 326: the ids of the batch, as a set                                *)
BatchRequests(start, end) == (start + 1)..end

(* A gate of one slot whatever the batch.                                  *)
SemaphoreSize_One(n) == 1

(* Line 329 *)
SemaphoreSize(n) == Min(n, MaxConcurrent)

(* Lines 324-340: next iteration of the batch loop up to the gather, which *)
(* turns every coroutine of the batch into a scheduled task.               *)
StartBatch ==
    /\ pc = "loop"
    /\ batch_start < total_requests
    /\ LET end == BatchEnd(batch_start, batch_size, total_requests)
           batch_requests == BatchRequests(batch_start, end) IN
       /\ batch_end' = end
       /\ batches' = Append(batches, batch_requests)
       /\ semaphore' = SemaphoreSize(Cardinality(batch_requests))
       /\ tpc' = [i \in Ids |-> IF i \in batch_requests THEN "pending" ELSE tpc[i]]
    /\ pc' = "gather"
    /\ UNCHANGED <<requests_per_second, total_requests, results, lock, session, exc,
                   batch_size, batch_start, result, start_time, attempts, pbar,
                   clock, report, probe>>
    /\ UNCHANGED <<pauses, summaries>>

(* Lines 324, 346-347: the range is exhausted, the loop ends normally.     *)
EndLoop ==
    /\ pc = "loop"
    /\ batch_start >= total_requests
    /\ pc' = "finally"
    /\ UNCHANGED <<requests_per_second, total_requests, results, lock, session, exc,
                   batch_size, batch_start, batch_end, semaphore, tpc, result,
                   start_time, attempts, pbar, clock, report, probe>>
    /\ UNCHANGED <<batches, pauses, summaries>>

(* A slot that is not given back.                                          *)
Release_Leak(sem) == sem

(* Line 332: leaving `async with semaphore` gives the slot back.           *)
Release(sem) == sem + 1

(* Lines 332-333, 130-141: a task takes a slot and issues its request.     *)
(* Tasks of a gather get their first step in the order they were created.  *)
CanAcquire(sem) == sem > 0

TaskStart(id) ==
    /\ pc = "gather"
    /\ tpc[id] = "pending"
    /\ \A j \in BatchIds : j < id => tpc[j] # "pending"
    /\ CanAcquire(semaphore)
    /\ semaphore' = semaphore - 1
    /\ start_time' = [start_time EXCEPT ![id] = clock]
    /\ attempts' = [attempts EXCEPT ![id] = @ + 1]
    /\ tpc' = [tpc EXCEPT ![id] = "request"]
    /\ UNCHANGED <<requests_per_second, total_requests, results, lock, session, pc,
                   exc, batch_size, batch_start, batch_end, result, pbar, clock,
                   report, probe>>
    /\ UNCHANGED <<batches, pauses, summaries>>

(* Lines 141-164, 332-333: the awaited request ends; make_request returns  *)
(* an outcome, or raises and the task leaves the semaphore block.          *)
RequestEnd(id) ==
    /\ tpc[id] = "request"
    /\ \E ending \in Endings :
          LET r == make_request(id, ending, start_time[id], clock) IN
          IF r.kind = "return"
          THEN /\ result' = [result EXCEPT ![id] = r.value]
               /\ tpc' = [tpc EXCEPT ![id] = "record"]
               /\ UNCHANGED semaphore
          ELSE /\ tpc' = [tpc EXCEPT ![id] = "failed"]
               /\ semaphore' = Release(semaphore)
               /\ UNCHANGED result
    /\ UNCHANGED <<requests_per_second, total_requests, results, lock, session, pc,
                   exc, batch_size, batch_start, batch_end, start_time, attempts,
                   pbar, clock, report, probe>>
    /\ UNCHANGED <<batches, pauses, summaries>>

(* print_result without the lock.                                          *)
LockFree_Always(l) == TRUE

(* Line 168: async with self.lock                                          *)
LockFree(l) == l = 0

LockAcquire(id) ==
    /\ tpc[id] = "record"
    /\ LockFree(lock)
    /\ lock' = id
    /\ tpc' = [tpc EXCEPT ![id] = "locked"]
    /\ UNCHANGED <<requests_per_second, total_requests, results, session, pc, exc,
                   batch_size, batch_start, batch_end, semaphore, result, start_time,
                   attempts, pbar, clock, report, probe>>
    /\ UNCHANGED <<batches, pauses, summaries>>

(* The new outcome put in front of the collection.                         *)
results_append_AtFront(rs, r) == <<r>> \o rs

(* Line 170: self.results.append                                           *)
results_append(rs, r) == Append(rs, r)

(* Lines 170-176: append under the lock, then the lock is released.        *)
print_result(id) ==
    /\ tpc[id] = "locked"
    /\ results' = results_append(results, ResultRecord(result[id], clock))
    /\ lock' = 0
    /\ tpc' = [tpc EXCEPT ![id] = "update"]
    /\ UNCHANGED <<requests_per_second, total_requests, session, pc, exc, batch_size,
                   batch_start, batch_end, semaphore, result, start_time, attempts,
                   pbar, clock, report, probe>>
    /\ UNCHANGED <<batches, pauses, summaries>>

(* Lines 335-336: progress update, return, the slot is given back.         *)
TaskReturn(id) ==
    /\ tpc[id] = "update"
    /\ pbar' = pbar + 1
    /\ semaphore' = Release(semaphore)
    /\ tpc' = [tpc EXCEPT ![id] = "done"]
    /\ UNCHANGED <<requests_per_second, total_requests, results, lock, session, pc,
                   exc, batch_size, batch_start, batch_end, result, start_time,
                   attempts, clock, report, probe>>
    /\ UNCHANGED <<batches, pauses, summaries>>

(* The batch's tasks started but not awaited.                              *)
Drained_NoWait(positions, ids) == TRUE

(* Line 340: gather returns once every task of the batch is finished.      *)
Drained(positions, ids) == \A i \in ids : positions[i] \in Terminal

(* The pacing sleep after every batch, the last one included.              *)
NotLastBatch_Always(end, total) == TRUE

(* Line 343 *)
NotLastBatch(end, total) == end < total

(* Lines 340-344, not the last batch: the pacing sleep begins.             *)
GatherDoneSleep ==
    /\ pc = "gather"
    /\ Drained(tpc, BatchIds)
    /\ NotLastBatch(batch_end, total_requests)
    /\ pc' = "sleep"
    /\ UNCHANGED <<requests_per_second, total_requests, results, lock, session, exc,
                   batch_size, batch_start, batch_end, semaphore, tpc, result,
                   start_time, attempts, pbar, clock, report, probe>>
    /\ pauses' = pauses + 1
    /\ UNCHANGED <<batches, summaries>>

(* Lines 340-343, 324, last batch: no sleep, back to the loop head.        *)
GatherDoneLast ==
    /\ pc = "gather"
    /\ Drained(tpc, BatchIds)
    /\ ~NotLastBatch(batch_end, total_requests)
    /\ batch_start' = NextBatchStart(batch_start, batch_size)
    /\ pc' = "loop"
    /\ UNCHANGED <<requests_per_second, total_requests, results, lock, session, exc,
                   batch_size, batch_end, semaphore, tpc, result, start_time,
                   attempts, pbar, clock, report, probe>>
    /\ UNCHANGED <<batches, pauses, summaries>>

(* Line 344, 324: the sleep of one second is over (the clock saturates at  *)
(* MaxClock), the loop advances by batch_size.                             *)
SleepDone ==
    /\ pc = "sleep"
    /\ clock' = Min(clock + 1, MaxClock)
    /\ batch_start' = NextBatchStart(batch_start, batch_size)
    /\ pc' = "loop"
    /\ UNCHANGED <<requests_per_second, total_requests, results, lock, session, exc,
                   batch_size, batch_end, semaphore, tpc, result, start_time,
                   attempts, pbar, report, probe>>
    /\ UNCHANGED <<batches, pauses, summaries>>

(* Time passes while requests are in flight and every task is suspended    *)
(* (what follows the end of a request up to the task's return runs in one  *)
(* synchronous step of the event loop).                                    *)
Tick ==
    /\ \E i \in Ids : tpc[i] = "request"
    /\ \A i \in Ids : tpc[i] \notin {"record", "locked", "update"}
    /\ clock < MaxClock
    /\ clock' = clock + 1
    /\ UNCHANGED <<requests_per_second, total_requests, results, lock, session, pc,
                   exc, batch_size, batch_start, batch_end, semaphore, tpc, result,
                   start_time, attempts, pbar, report, probe>>
    /\ UNCHANGED <<batches, pauses, summaries>>

(* Cancelling a task throws CancelledError at the await it is suspended    *)
(* on: a pending task never runs, a task inside make_request sees the      *)
(* exception pass through the except clauses of lines 153-164.             *)
CancelledPosition(id) ==
    IF tpc[id] = "request"
    THEN IF make_request(id, Cancellation, start_time[id], clock).kind = "raise"
         THEN "cancelled" ELSE "record"
    ELSE IF tpc[id] = "pending" THEN "cancelled"
    ELSE tpc[id]

HoldsSlot(position) == position \in {"request", "record", "locked", "update"}

(* The operator's interrupt while the main task awaits the gather or the   *)
(* sleep (lines 340, 344): the main task is cancelled, the gather cancels  *)
(* its unfinished children, and CancelledError enters the finally block.   *)
(* A child in the middle of its synchronous step (request ended, outcome   *)
(* not yet returned) completes that step first.                            *)
InterruptAwait ==
    /\ pc \in {"gather", "sleep"}
    /\ \A i \in BatchIds : tpc[i] \notin {"record", "locked", "update"}
    /\ tpc' = [i \in Ids |-> IF i \in BatchIds THEN CancelledPosition(i) ELSE tpc[i]]
    /\ result' = [i \in Ids |->
                     IF i \in BatchIds /\ tpc[i] = "request" /\ CancelledPosition(i) = "record"
                     THEN make_request(i, Cancellation, start_time[i], clock).value
                     ELSE result[i]]
    /\ semaphore' = semaphore
          + Cardinality({i \in BatchIds : HoldsSlot(tpc[i]) /\ ~HoldsSlot(CancelledPosition(i))})
    /\ exc' = "CancelledError"
    /\ pc' = "finally"
    /\ UNCHANGED <<requests_per_second, total_requests, results, lock, session,
                   batch_size, batch_start, batch_end, start_time, attempts, pbar,
                   clock, report, probe>>
    /\ UNCHANGED <<batches, pauses, summaries>>

(* The interrupt while the main task itself is running the loop head       *)
(* (lines 324-339): KeyboardInterrupt is raised in its frame, or, where    *)
(* the event loop owns the signal, the task is cancelled and sees          *)
(* CancelledError at its next await.                                       *)
InterruptLoop ==
    /\ pc = "loop"
    /\ \E how \in {"KeyboardInterrupt", "CancelledError"} : exc' = how
    /\ pc' = "finally"
    /\ UNCHANGED <<requests_per_second, total_requests, results, lock, session,
                   batch_size, batch_start, batch_end, semaphore, tpc, result,
                   start_time, attempts, pbar, clock, report, probe>>
    /\ UNCHANGED <<batches, pauses, summaries>>

(* run_load_test returning without its final print_summary.                *)
AfterFinally_SkipSummary(e) ==
    CASE e = "KeyboardInterrupt" -> "except"
      [] OTHER                   -> "exit"

(* Lines 349-350, then the handlers of run (lines 357-367) and of the      *)
(* module (lines 377-383) pick the continuation.                           *)
AfterFinally(e) ==
    CASE e = "none"              -> "summary"
      [] e = "KeyboardInterrupt" -> "except"
      [] OTHER                   -> "exit"

(* The session closed only after a loop that ended normally.               *)
SessionAfterFinally_NormalOnly(s, e) == IF e = "none" THEN "closed" ELSE s

(* Line 350 *)
SessionAfterFinally(s, e) == "closed"

Finally ==
    /\ pc = "finally"
    /\ session' = SessionAfterFinally(session, exc)
    /\ pc' = AfterFinally(exc)
    /\ UNCHANGED <<requests_per_second, total_requests, results, lock, exc,
                   batch_size, batch_start, batch_end, semaphore, tpc, result,
                   start_time, attempts, pbar, clock, report, probe>>
    /\ UNCHANGED <<batches, pauses, summaries>>

(* Line 353 *)
Summary ==
    /\ pc = "summary"
    /\ report' = print_summary(results, requests_per_second)
    /\ pc' = "exit"
    /\ UNCHANGED <<requests_per_second, total_requests, results, lock, session, exc,
                   batch_size, batch_start, batch_end, semaphore, tpc, result,
                   start_time, attempts, pbar, clock, probe>>
    /\ summaries' = summaries + 1
    /\ UNCHANGED <<batches, pauses>>

(* Lines 360-364: KeyboardInterrupt caught in run.                         *)
PartialReport(rs, target, old) ==
    IF rs # <<>> THEN print_summary(rs, target) ELSE old

ExceptKeyboardInterrupt ==
    /\ pc = "except"
    /\ report' = PartialReport(results, requests_per_second, report)
    /\ pc' = "exit"
    /\ UNCHANGED <<requests_per_second, total_requests, results, lock, session, exc,
                   batch_size, batch_start, batch_end, semaphore, tpc, result,
                   start_time, attempts, pbar, clock, probe>>
    /\ summaries' = IF results # <<>> THEN summaries + 1 ELSE summaries
    /\ UNCHANGED <<batches, pauses>>

Next ==
    \/ get_user_input
    \/ run_load_test
    \/ StartBatch
    \/ EndLoop
    \/ \E id \in Ids : TaskStart(id)
    \/ \E id \in Ids : RequestEnd(id)
    \/ \E id \in Ids : LockAcquire(id)
    \/ \E id \in Ids : print_result(id)
    \/ \E id \in Ids : TaskReturn(id)
    \/ GatherDoneSleep
    \/ GatherDoneLast
    \/ SleepDone
    \/ Tick
    \/ InterruptAwait
    \/ InterruptLoop
    \/ Finally
    \/ Summary
    \/ ExceptKeyboardInterrupt

Spec == Init /\ [][Next]_vars

(* The steps that the event loop takes on its own up to the end of         *)
(* run_load_test's finally block: everything but the operator's interrupt  *)
(* and the passing of time.  Every awaited request ends (at the latest by  *)
(* its timeout of line 140) and every ready task is run, so these steps    *)
(* are taken when they stay possible.                                      *)
Progress ==
    \/ get_user_input
    \/ run_load_test
    \/ StartBatch
    \/ EndLoop
    \/ \E id \in Ids : TaskStart(id)
    \/ \E id \in Ids : RequestEnd(id)
    \/ \E id \in Ids : LockAcquire(id)
    \/ \E id \in Ids : print_result(id)
    \/ \E id \in Ids : TaskReturn(id)
    \/ GatherDoneSleep
    \/ GatherDoneLast
    \/ SleepDone
    \/ Finally

(* Lines 353, 360-364: the report is printed by synchronous code that      *)
(* runs to its end.  The step is described by the position alone, so that  *)
(* its fairness does not depend on the value of the report.                *)
ReportStep == pc \in {"summary", "except"} /\ pc' = "exit"

LiveSpec == Init /\ [][Next]_vars /\ WF_vars(Progress) /\ WF_pc(ReportStep)

----------------------------------------------------------------------------
(* Runs with a fault.                                                      *)

(* An exception other than a cancellation raised in the main task inside   *)
(* the try block of lines 316-347; it passes the finally of line 349 and   *)
(* reaches `except Exception` of run (lines 365-367).                      *)
LoopRaises ==
    /\ pc = "loop"
    /\ exc' = "Exception"
    /\ pc' = "finally"
    /\ UNCHANGED <<requests_per_second, total_requests, results, lock, session,
                   batch_size, batch_start, batch_end, semaphore, tpc, result,
                   start_time, attempts, pbar, clock, report, probe>>
    /\ UNCHANGED <<batches, pauses, summaries>>

FailNext ==
    \/ Next
    \/ LoopRaises

FailSpec == Init /\ [][FailNext]_vars

(* print_result raises inside the lock (lines 168-176): nothing is         *)
(* appended, the lock and the slot are given back by the two `async with`  *)
(* blocks, and the exception ends the task; the gather of line 340 keeps   *)
(* it as that task's value (return_exceptions=True).                       *)
PrintResultRaises(id) ==
    /\ tpc[id] = "locked"
    /\ lock' = 0
    /\ semaphore' = Release(semaphore)
    /\ tpc' = [tpc EXCEPT ![id] = "failed"]
    /\ UNCHANGED <<requests_per_second, total_requests, results, session, pc, exc,
                   batch_size, batch_start, batch_end, result, start_time, attempts,
                   pbar, clock, report, probe>>
    /\ UNCHANGED <<batches, pauses, summaries>>

DefectNext ==
    \/ Next
    \/ \E id \in Ids : PrintResultRaises(id)

DefectSpec == Init /\ [][DefectNext]_vars

----------------------------------------------------------------------------
(* print_summary as a pure function of a collection: the collections are   *)
(* drawn from a bounded set, the summary and single percentile lookups are *)
(* applied to them.                                                        *)

SummaryLatencies == {10, 20, 30, 40}

SummaryRps == {2, 100}

SummaryTuples ==
    {<<0, 200, t, <<>> >> : t \in SummaryLatencies}
      \cup {make_request(0, [kind |-> "exception", class |-> e], 0, 30).value :
               e \in {"TimeoutError", "ClientPayloadError"}}

(* A collection of n records whose timestamps do not decrease: the first  *)
(* k were recorded at time 0, the others at time 1; ids follow positions.  *)
SummaryCollection(n, f, k) ==
    [i \in 1..n |-> ResultRecord([f[i] EXCEPT ![1] = i], IF i <= k THEN 0 ELSE 1)]

SummaryInit ==
    /\ requests_per_second \in SummaryRps
    /\ \E n \in 0..MaxSummaryLen :
          \E f \in [1..n -> SummaryTuples], k \in 0..n :
              results = SummaryCollection(n, f, k)
    /\ total_requests = Max(Len(results), 1)
    /\ lock = 0
    /\ session = "closed"
    /\ pc = "summary"
    /\ exc = "none"
    /\ batch_size = BatchSize(requests_per_second)
    /\ batch_start = 0
    /\ batch_end = 0
    /\ semaphore = 0
    /\ tpc = [i \in Ids |-> "none"]
    /\ result = [i \in Ids |-> NoResult]
    /\ start_time = [i \in Ids |-> 0]
    /\ attempts = [i \in Ids |-> 0]
    /\ pbar = 0
    /\ clock = 1
    /\ report = NoReport
    /\ probe = NoProbe
    /\ batches = <<>>
    /\ pauses = 0
    /\ summaries = 0

ProbeSet == Percentiles \cup {100}

(* Lines 226, 229-233 with the ladder replaced by ps.                      *)
PercentileLookup(ps, response_times) ==
    LET sorted_times == sorted(response_times) IN
    [kind  |-> "lookup",
     input |-> response_times,
     times |-> sorted_times,
     idx   |-> [p \in ps |-> PercentileIndex(p, Len(sorted_times))],
     value |-> [p \in ps |-> PercentileValue(p, sorted_times)]]

Probe ==
    /\ pc = "exit"
    /\ SelectSeq(results, Succeeded) # <<>>
    /\ probe = NoProbe
    /\ probe' = PercentileLookup(ProbeSet, MapField(SelectSeq(results, Succeeded), "response_time"))
    /\ UNCHANGED <<requests_per_second, total_requests, results, lock, session, pc,
                   exc, batch_size, batch_start, batch_end, semaphore, tpc, result,
                   start_time, attempts, pbar, clock, report>>
    /\ UNCHANGED <<batches, pauses, summaries>>

SummaryNext ==
    \/ Summary
    \/ Probe

SummarySpec == SummaryInit /\ [][SummaryNext]_vars

----------------------------------------------------------------------------
(* Properties                                                              *)

InFlight == {i \in Ids : tpc[i] = "request"}

ErrorKinds == {<<"Timeout">>, <<"Connection Error">>, <<"Client Error">>,
               <<"Unexpected Error">>}

(* A make_request tuple is well formed: success has a status and no error, *)
(* failure has status 0 and an error of one of the four kinds.             *)
WellFormed(status_code, error) ==
    /\ (status_code = 0) <=> (error # <<>>)
    /\ error = <<>> => status_code # 0
    /\ status_code = 0 => ErrorType(error) \in ErrorKinds

BatchOf(id) == (id - 1) \div batch_size

(* C1: once the batch loop has ended normally (Completed) the collection   *)
(* holds exactly total_requests outcomes, every id of 1..total_requests    *)
(* exactly once, and every id was attempted exactly once.                  *)
C1_CompletedHoldsEveryIdOnce ==
    State = "Completed" =>
        /\ Len(results) = total_requests
        /\ \A id \in 1..total_requests :
              /\ Cardinality({i \in DOMAIN results : results[i].id = id}) = 1
              /\ attempts[id] = 1

C1_Witness ==
    /\ State = "Completed"
    /\ pc = "exit"
    /\ total_requests = 3
    /\ batch_size = 2

(* C2: the number of make_request calls in flight never exceeds            *)
(* min(batch_size, 1000).                                                  *)
C2_InFlightBounded ==
    Cardinality(InFlight) <= Min(batch_size, MaxConcurrent)

C2_Witness ==
    /\ batch_size = 2
    /\ Cardinality(InFlight) = 2

(* C3 as stated: an interrupt after m < total_requests recorded outcomes   *)
(* leaves the collection as it was and ends in a cancelled state that has  *)
(* produced a report whose total is m.                                     *)
C3_InterruptedRunReports ==
    /\ [][(State = "Running" /\ State' = "Cancelled") => results' = results]_vars
    /\ [](State = "Cancelled" /\ pc = "exit" /\ Len(results) < total_requests =>
             /\ report # NoReport
             /\ report.kind = "summary" => report.total = Len(results)
             /\ report.kind = "no_data" => Len(results) = 0)

(* C4: every outcome in the collection has status_code 0 exactly when its  *)
(* error is non-empty; a failure carries one of the four error kinds.      *)
C4_StatusZeroIffError ==
    \A i \in DOMAIN results : WellFormed(results[i].status_code, results[i].error)

C4_Witness ==
    /\ \E i \in DOMAIN results : results[i].status_code = 0
    /\ \E i \in DOMAIN results : results[i].status_code # 0

(* C5 as stated: whatever ends a request attempt, cancellation of the task *)
(* included, make_request returns a well-formed outcome.                   *)
C5_EveryEndingReturns ==
    [][\A id \in Ids :
          tpc[id] = "request" /\ tpc'[id] # "request" =>
              /\ tpc'[id] = "record"
              /\ result'[id] # NoResult
              /\ WellFormed(result'[id][2], result'[id][4])]_vars

(* C5 amended: every ending other than the cancellation of the task        *)
(* returns a well-formed outcome; cancellation raises CancelledError past  *)
(* make_request and produces no outcome.                                   *)
C5_EveryEndingButCancellationReturns ==
    [][\A id \in Ids :
          tpc[id] = "request" /\ tpc'[id] # "request" =>
              \/ /\ tpc'[id] = "record"
                 /\ result'[id] # NoResult
                 /\ result'[id][1] = id
                 /\ WellFormed(result'[id][2], result'[id][4])
              \/ /\ tpc'[id] = "cancelled"
                 /\ exc' = "CancelledError"
                 /\ result'[id] = NoResult
                 /\ results' = results]_vars

C5_Witness ==
    \E id \in Ids :
        /\ tpc[id] = "record"
        /\ result[id][2] = 0
        /\ ErrorType(result[id][4]) = <<"Unexpected Error">>

Ceil100(x) == (x + 99) \div 100

(* C6 as stated: the index used for percentile p over n successful         *)
(* latencies is max(0, ceil(p/100 * n) - 1).                               *)
C6_IndexIsNearestRank ==
    report.kind = "summary" /\ report.percentiles # Skipped =>
        \A p \in Percentiles :
            report.percentiles.idx[p] = Max(0, Ceil100(p * report.successful) - 1)

(* C7: the index computation with p = 100 selects the maximum of any       *)
(* non-empty list, and with p = 50 on [10, 20, 30, 40] index 1, value 20.  *)
C7_P100IsMaxAndP50Is20 ==
    probe # NoProbe =>
        /\ probe.value[100] = [ms |-> MaxSeq(probe.input)]
        /\ probe.times = <<10, 20, 30, 40>> =>
              /\ probe.idx[50] = 1
              /\ probe.value[50] = [ms |-> 20]

C7_Witness ==
    /\ probe # NoProbe
    /\ probe.input = <<40, 10, 30, 20>>
    /\ probe.times = <<10, 20, 30, 40>>

Successes == SelectSeq(results, Succeeded)

(* C8: print_summary never raises; on an empty collection it yields only   *)
(* the no-data result; when every outcome failed it skips latency          *)
(* statistics and percentiles but reports the counts and the error         *)
(* histogram; with exactly one success the standard deviation is 0.        *)
C8_DegenerateCollections ==
    pc = "exit" /\ report # NoReport =>
        /\ ~IsRaised(report)
        /\ results = <<>> <=> report = [kind |-> "no_data"]
        /\ results # <<>> /\ Successes = <<>> =>
              /\ report.latency = Skipped
              /\ report.percentiles = Skipped
              /\ report.total = Len(results)
              /\ report.successful = 0
              /\ report.failed = Len(results)
              /\ DOMAIN report.errors = {ErrorType(results[i].error) : i \in DOMAIN results}
              /\ \A t \in DOMAIN report.errors :
                    report.errors[t] =
                        Cardinality({i \in DOMAIN results : ErrorType(results[i].error) = t})
        /\ Len(Successes) = 1 => report.latency.stdev = [sqrt_of |-> Ratio(0, 1)]

C8_Witness ==
    /\ pc = "exit"
    /\ report # NoReport
    /\ Len(results) = 3
    /\ Len(Successes) = 1

(* C9: at most one task is inside the critical section of print_result.    *)
C9_MutualExclusion ==
    Cardinality({i \in Ids : tpc[i] = "locked"}) <= 1

C9_Witness ==
    \E i, j \in Ids :
        /\ tpc[i] = "locked"
        /\ tpc[j] = "record"

(* C10: no task of a later batch exists, and the pacing sleep has not      *)
(* begun, before every task of the earlier batch is finished; outcomes of  *)
(* an earlier batch precede those of a later batch in the collection.      *)
C10_BatchesSequential ==
    batch_size > 0 =>
        /\ \A i, j \in Ids :
              BatchOf(i) < BatchOf(j) /\ tpc[j] # "none" => tpc[i] \in Terminal
        /\ pc = "sleep" => \A i \in 1..batch_end : tpc[i] \in Terminal
        /\ \A a, b \in DOMAIN results :
              a < b => BatchOf(results[a].id) <= BatchOf(results[b].id)

(* Within a batch the recording order is free: 2 before 1, then batch 2.   *)
C10_Witness ==
    /\ batch_size = 2
    /\ Len(results) = 3
    /\ results[1].id = 2
    /\ results[2].id = 1
    /\ results[3].id = 3

(* C11: once the session exists, run_load_test is not left, normally, by   *)
(* cancellation or by an exception of the batch loop, with the session     *)
(* still open.                                                             *)
C11_SessionClosedOnEveryExit ==
    /\ pc \in {"summary", "except", "exit"} => session = "closed"
    /\ pc \in {"loop", "gather", "sleep", "finally"} => session = "open"

C11_Witness ==
    /\ pc = "exit"
    /\ State = "Failed"
    /\ results # <<>>
    /\ session = "closed"

Timestamps == {results[i].timestamp : i \in DOMAIN results}

Latest == CHOOSE x \in Timestamps : \A y \in Timestamps : y <= x

Earliest == CHOOSE x \in Timestamps : \A y \in Timestamps : x <= y

(* The value of a ratio is v.                                              *)
RatioIs(r, v) == r.den > 0 /\ r.num = v * r.den

(* The observed duration, the observed rate (0 when the duration is 0) and *)
(* the efficiency, where it is reported, of a summary.  The efficiency for *)
(* a rate of 80 against a target of 100 is 80.                             *)
C12_Figures ==
    /\ report.test_duration = Latest - Earliest
    /\ report.test_duration = 0 => RatioIs(report.actual_rps, 0)
    /\ report.test_duration > 0 =>
           report.actual_rps.num * report.test_duration
               = Len(results) * report.actual_rps.den
    /\ report.throughput # Skipped =>
           /\ report.throughput.efficiency.den > 0
           /\ report.throughput.efficiency.num * report.test_duration * requests_per_second
                  = 100 * Len(results) * report.throughput.efficiency.den
    /\ RatioIs(ThroughputAnalysis(80, 1, ActualRps(80, 1), 100).efficiency, 80)

(* C12 as stated: duration is max - min of the timestamps of all outcomes, *)
(* rate is total / duration and 0 when the duration is 0, efficiency is    *)
(* rate / target * 100, and is part of every summary of a non-empty        *)
(* collection.                                                             *)
C12_EfficiencyInEverySummary ==
    pc = "exit" /\ report # NoReport /\ results # <<>> =>
        /\ C12_Figures
        /\ report.throughput # Skipped

(* C12 amended: the same figures, with the efficiency part of the summary  *)
(* exactly when the observed duration is greater than 0.                   *)
C12_EfficiencyWhenDurationPositive ==
    pc = "exit" /\ report # NoReport /\ results # <<>> =>
        /\ C12_Figures
        /\ report.throughput # Skipped <=> report.test_duration > 0

(* A failed outcome sets the start of the span, a target of 100.           *)
C12_Witness ==
    /\ pc = "exit"
    /\ report # NoReport
    /\ requests_per_second = 100
    /\ Len(results) = 4
    /\ results[1].status_code = 0
    /\ results[1].timestamp = 0
    /\ \A i \in 2..4 : results[i].status_code > 0 /\ results[i].timestamp = 1
    /\ report.test_duration = 1
    /\ RatioIs(report.throughput.efficiency, 4)

Started == pc \notin {"input", "start"}

(* C13: the batch size is min(rate, 1000) for a rate of at least 100 and   *)
(* the rate otherwise; the k-th batch issued is the range of ids           *)
(* (k-1)*batchSize + 1 .. min(k*batchSize, total), so the batches are      *)
(* consecutive, disjoint and in increasing id order, each of batchSize ids *)
(* except possibly the last; a completed run has covered 1..total; the     *)
(* tasks of a batch start in increasing id order.                          *)
C13_BatchesPartitionIds ==
    /\ Started =>
           /\ requests_per_second < 100 => batch_size = requests_per_second
           /\ requests_per_second >= 100 /\ requests_per_second <= 1000 =>
                  batch_size = requests_per_second
           /\ requests_per_second > 1000 => batch_size = 1000
    /\ \A k \in DOMAIN batches :
           /\ batches[k] = ((k - 1) * batch_size + 1)..Min(k * batch_size, total_requests)
           /\ batches[k] # {}
           /\ k < Len(batches) => Cardinality(batches[k]) = batch_size
           /\ Cardinality(batches[k]) <= batch_size
    /\ State = "Completed" =>
           UNION {batches[k] : k \in DOMAIN batches} = 1..total_requests
    /\ pc = "gather" =>
           \A i, j \in BatchIds : i < j /\ tpc[i] = "pending" => tpc[j] = "pending"

(* A completed run of three requests at two per batch: a full batch and a  *)
(* shorter last one.                                                       *)
C13_Witness ==
    /\ State = "Completed"
    /\ batch_size = 2
    /\ batches = <<{1, 2}, {3}>>

CeilDiv(a, b) == (a + b - 1) \div b

(* C14: a pause follows a batch exactly when it is not the last one: the   *)
(* dispatcher pauses only with ids still to issue, every batch but the     *)
(* first is preceded by one pause (batch, pause, batch, ...), and a run    *)
(* that completed made ceil(total / batchSize) - 1 pauses.                 *)
C14_PauseBetweenBatchesOnly ==
    /\ pc = "sleep" => batch_end < total_requests /\ pauses = Len(batches)
    /\ pc = "gather" => pauses = Len(batches) - 1
    /\ pc = "loop" /\ batch_start < total_requests => pauses = Len(batches)
    /\ pc = "loop" /\ batch_start >= total_requests =>
           batch_end = total_requests /\ pauses = Len(batches) - 1
    /\ State = "Completed" =>
           pauses = CeilDiv(total_requests, batch_size) - 1

(* Three requests in batches of one: two pauses, none after the third.     *)
C14_Witness ==
    /\ State = "Completed"
    /\ batch_size = 1
    /\ Len(batches) = 3
    /\ pauses = 2

Recorded(id) == \E k \in DOMAIN results : results[k].id = id

FailedRequests == {i \in Ids : result[i] # NoResult /\ result[i][2] = 0}

(* C15: a failed request is an outcome like any other: no task ends with   *)
(* an exception or is cancelled unless the run itself is cancelled, and    *)
(* once the dispatcher is past a batch every request of it, failed or not, *)
(* is finished and recorded; a drained batch lets the dispatcher go on.    *)
C15_FailureLeavesSiblingsAlone ==
    /\ \A i \in Ids : tpc[i] = "cancelled" => exc = "CancelledError"
    /\ exc = "none" =>
           /\ \A i \in Ids : tpc[i] \notin {"failed", "cancelled"}
           /\ pc \in {"sleep", "loop", "finally", "summary", "exit"} =>
                  \A i \in 1..batch_end :
                      /\ tpc[i] = "done"
                      /\ Recorded(i)
                      /\ \A k \in DOMAIN results :
                             results[k].id = i =>
                                 results[k].status_code = result[i][2]
           /\ pc = "gather" /\ (\A i \in BatchIds : tpc[i] = "done") =>
                  ENABLED (GatherDoneSleep \/ GatherDoneLast)

(* The first request of a batch of two failed, the second succeeded, both  *)
(* are recorded and the next batch has been issued.                        *)
C15_Witness ==
    /\ Len(batches) = 2
    /\ batches[1] = {1, 2}
    /\ 1 \in FailedRequests
    /\ 2 \notin FailedRequests
    /\ Recorded(1)
    /\ Recorded(2)
    /\ tpc[3] = "request"

(* C16 as stated: when print_result raises inside a batch task the run     *)
(* does not end as Completed.                                              *)
C16_DefectNotSwallowed ==
    (\E id \in Ids : tpc[id] = "failed") => State # "Completed"

IsPrefix(a, b) == Len(a) <= Len(b) /\ SubSeq(b, 1, Len(a)) = a

(* C17: every step leaves the collection as it was or appends one outcome  *)
(* at its end, so that the earlier collection is a prefix of the later     *)
(* one; a step that produces a report leaves the collection and the other  *)
(* fields of the tester (configuration, lock, session) unchanged.          *)
C17_AppendOnly ==
    [][/\ IsPrefix(results, results')
       /\ Len(results') <= Len(results) + 1
       /\ report' # report \/ summaries' # summaries =>
              UNCHANGED <<results, requests_per_second, total_requests, lock,
                          session>>]_vars

(* A summary has been printed of a collection that grew by appends.        *)
C17_Witness ==
    /\ report.kind = "summary"
    /\ summaries = 1
    /\ Len(results) = 3
    /\ results[1].id = 2
    /\ results[2].id = 1

LastBatch == IF batches = <<>> THEN {} ELSE batches[Len(batches)]

HeldSlots == Cardinality({i \in LastBatch : HoldsSlot(tpc[i])})

(* C18: a task holds a slot of its batch's gate from the start of its      *)
(* request until it has returned: the slots taken from the gate are those  *)
(* of the tasks between acquire and release; the outcome is produced       *)
(* while the slot is held and is in the collection before the slot is      *)
(* given back; a cancelled task has given its slot back without an         *)
(* outcome; once the batch has drained no slot is held.                    *)
C18_SlotHeldUntilRecorded ==
    /\ batches # <<>> =>
           semaphore + HeldSlots = Min(Cardinality(LastBatch), 1000)
    /\ \A i \in Ids :
           /\ tpc[i] \in {"pending", "request", "cancelled"} =>
                  result[i] = NoResult /\ ~Recorded(i)
           /\ tpc[i] \in {"record", "locked"} => result[i] # NoResult /\ ~Recorded(i)
           /\ tpc[i] \in {"update", "done"} => result[i] # NoResult /\ Recorded(i)
           /\ tpc[i] = "pending" => attempts[i] = 0
           /\ tpc[i] \notin {"none", "pending", "cancelled"} => attempts[i] = 1
    /\ batches # <<>> /\ Drained(tpc, LastBatch) => HeldSlots = 0

(* A batch of two drained by a cancellation: one task had recorded a       *)
(* failed request and returned, the other was cancelled inside its         *)
(* request; both slots are back.                                           *)
C18_Witness ==
    /\ LastBatch = {1, 2}
    /\ exc = "CancelledError"
    /\ tpc[1] = "done"
    /\ result[1][2] = 0
    /\ tpc[2] = "cancelled"
    /\ attempts[2] = 1
    /\ semaphore = 2

StateStep(from, to) ==
    \/ from = to
    \/ from = "Idle" /\ to = "Running"
    \/ from = "Running" /\ to \in {"Completed", "Cancelled", "Failed"}

(* C19: the run goes Idle, Running, then Completed, Cancelled or Failed,   *)
(* and stays there; with every request ending and every enabled step of    *)
(* the run eventually taken, a run that is not cancelled reaches the end   *)
(* of a Completed run; a Completed run asks for the report once, after     *)
(* completing, and never again.                                            *)
C19_RunTerminatesAndReportsOnce ==
    /\ [][StateStep(State, State')]_vars
    /\ [](State = "Completed" =>
             /\ summaries = (IF pc = "exit" THEN 1 ELSE 0)
             /\ pc = "exit" => report # NoReport)
    /\ <>(\/ State = "Cancelled"
          \/ pc = "exit" /\ State = "Completed" /\ summaries = 1)

(* A run of two batches has completed and has printed its one summary.     *)
C19_Witness ==
    /\ pc = "exit"
    /\ State = "Completed"
    /\ Len(batches) = 2
    /\ summaries = 1
    /\ report.kind = "summary"
    /\ report.total = total_requests

Pending == {i \in LastBatch : tpc[i] = "pending"}

(* C20: the batch size is min(rate, 1000) at every rate, no batch has more *)
(* than 1000 ids, the gate of a batch has as many slots as the batch has   *)
(* ids, so a free slot is left for every task that has not started yet     *)
(* (no task waits on the gate) and the whole batch can be in flight.       *)
C20_GateNeverBinds ==
    /\ Started =>
           batch_size = (IF requests_per_second < 1000 THEN requests_per_second
                         ELSE 1000)
    /\ \A k \in DOMAIN batches : Cardinality(batches[k]) <= 1000
    /\ pc = "gather" =>
           /\ semaphore + HeldSlots = Cardinality(LastBatch)
           /\ semaphore >= Cardinality(Pending)
           /\ Pending # {} => CanAcquire(semaphore)

(* Both requests of a batch of two are in flight, the gate is empty.       *)
C20_Witness ==
    /\ pc = "gather"
    /\ LastBatch = {1, 2}
    /\ tpc[1] = "request"
    /\ tpc[2] = "request"
    /\ semaphore = 0

====
